---- MODULE Spec2Model ----
(***************************************************************************)
(* FinIQ.ai backend: the full-pipeline result cache (backend/utils/cache.py)*)
(* and the pipeline orchestrator (backend/orchestrator/chain_manager.py),  *)
(* as the repository documents them.  One orchestrator run per request:    *)
(*   start -> normalized -> cache-checked                                  *)
(*         -> done (hit) | running-steps -> assembling -> caching          *)
(*         -> cached -> done (miss)                                        *)
(* Time is counted in ticks; a digest is an injective image of the         *)
(* canonical serialization (SHA-256 without collisions).                   *)
(***************************************************************************)
EXTENDS Integers, Sequences, FiniteSets, TLC

VARIABLES
    now,          \* wall clock, in ticks
    cacheVersion, \* CACHE_VERSION of the deployed code
    redisUp,      \* the Redis backend answers
    diskOk,       \* the cache directory can be read and written
    redis,        \* Redis keys: key -> [value, expires_at]
    files,        \* backend/cache/: key -> file content
    pc,           \* per run: state of the orchestrator
    raw,          \* per run: the raw request
    input_dict,   \* per run: the validated input dict (mutable)
    fp,           \* per run: cache_key
    got,          \* per run: what cache_get returned
    context,      \* per run: shared context of the agents
    log,          \* per run: execution_log
    step,         \* per run: index of the next agent
    startedAt,    \* per run: time.time() when run() was entered
    report,       \* per run: output of _build_output plus metadata
    result,       \* per run: what run() returned
    apiCalls,     \* per run: calls made to the generative-text service
    setCalls,     \* per run: calls made to cache_set
    requests,     \* requests received so far
    failures,     \* agent failures so far
    envEvents,    \* environment events so far
    history,      \* completed requests, in order of completion
    setLog,       \* the cache_set calls made so far: [key, value, at]
    outcomes,     \* per run: whether each agent call made so far succeeded
    probe,        \* per run: cache_get right after the run's cache_set
    disturbed,    \* kinds of events that disturbed the cache so far
    limits,       \* how much the environment does: requests, failures, events
    usersFile,    \* front end: content of data/users.json
    signup        \* front end, per signup request: position, email, local users

pipelineVars == <<now, cacheVersion, redisUp, diskOk, redis, files, pc, raw, input_dict,
                  fp, got, context, log, step, startedAt, report, result, apiCalls,
                  setCalls, requests, failures, envEvents, history, setLog, outcomes, probe,
                  disturbed,
                  limits>>

userVars == <<usersFile, signup>>

vars == <<pipelineVars, userVars>>

(******************************* bounds ************************************)
NumRuns == 2
MaxRequests == 2
MaxTime == 2
MaxVersion == 2
MaxStepFailures == 1
MaxEnvEvents == 1
MaxTextLen == 2
\* CACHE_TTL (3600 s in the deployment), in ticks
CacheTTL == 2
\* signup requests the front end handles at the same time
NumSignups == 3

Runs == 1..NumRuns

(**************************** request values *******************************)
Chars == {" ", "a", "b"}
Texts == UNION {[1..n -> Chars] : n \in 0..MaxTextLen}

None == [kind |-> "none"]
Str(s) == [kind |-> "str", val |-> s]
Num(n) == [kind |-> "num", val |-> n]

\* fields of StartupInput that the model carries (one text, one number)
InputFields == {"startupName", "teamSize"}
\* fields compute_hash leaves out of the key
MetadataFields == {"user_id", "timestamp"}

RawRequests ==
    [startupName : {None} \cup {Str(s) : s \in Texts},
     teamSize : {None, Num(3), Str(<<"3">>), Str(<<"x">>)},
     user_id : {None, Str(<<"u1">>), Str(<<"u2">>)},
     timestamp : {None, Num(1)}]

\* the requests the orchestrator runs are given
Acme == [startupName |-> Str(<<"a">>), teamSize |-> Num(3),
         user_id |-> Str(<<"u1">>), timestamp |-> None]
AcmeAgain == [startupName |-> Str(<<"a">>), teamSize |-> Str(<<"3">>),
              user_id |-> Str(<<"u2">>), timestamp |-> Num(1)]
Beta == [startupName |-> Str(<<"b">>), teamSize |-> None,
         user_id |-> Str(<<"u1">>), timestamp |-> None]
Requests == {Acme, AcmeAgain, Beta}

(**************************** Input Normalizer *****************************)
\* text field: kept as sent (whitespace included), default empty string
NormText(v) == IF v.kind = "str" THEN v.val ELSE <<>>

DigitValue(c) == IF c = "3" THEN 3 ELSE -1

\* NormNumber that marks a value it cannot read instead of defaulting it
NormNumber_marks_malformed(v) ==
    IF v.kind = "num" THEN v.val
    ELSE IF v.kind = "str" /\ Len(v.val) = 1 /\ DigitValue(v.val[1]) >= 0
         THEN DigitValue(v.val[1])
    ELSE IF v.kind = "str" THEN -1
    ELSE 0

\* numeric field: numbers kept, numeric-looking strings coerced, default zero
NormNumber(v) ==
    IF v.kind = "num" THEN v.val
    ELSE IF v.kind = "str" /\ Len(v.val) = 1 /\ DigitValue(v.val[1]) >= 0
         THEN DigitValue(v.val[1])
    ELSE 0

\* validate_startup_input + input_to_dict + the normalized keys
Normalize(r) ==
    [startupName |-> NormText(r.startupName),
     startup_name |-> NormText(r.startupName),
     teamSize |-> NormNumber(r.teamSize)]

(************************** Fingerprint Generator **************************)
\* the key names in sorted order (json.dumps(sort_keys=True))
KeyOrder == <<"ideaProfile", "startupName", "startup_name", "teamSize",
              "timestamp", "user_id">>

SortedKeys(D) == SelectSeq(KeyOrder, LAMBDA k : k \in D)

\* Canonical that serializes every key, metadata fields too
Canonical_with_metadata(d) ==
    LET ks == SortedKeys(DOMAIN d)
    IN  [i \in 1..Len(ks) |-> <<ks[i], d[ks[i]]>>]

\* canonical serialization: the pairs of the non-metadata keys, keys sorted
Canonical(d) ==
    LET ks == SortedKeys(DOMAIN d \ MetadataFields)
    IN  [i \in 1..Len(ks) |-> <<ks[i], d[ks[i]]>>]

Sha256(s) == [sha256 |-> s]

\* compute_hash with the prefix of the first version written into it
compute_hash_fixed_prefix(d, version) ==
    [version |-> 1, digest |-> Sha256(Canonical(d))]

\* "{CACHE_VERSION}:{hexdigest}"
compute_hash(d, version) == [version |-> version, digest |-> Sha256(Canonical(d))]

(******************************** JSON *************************************)
\* the keys of a cached value in the order json.dumps writes them
ReportKeyOrder == <<"startup_name", "idea_understanding", "funding_stage",
                    "raise_amount", "investor_type", "runway",
                    "financial_priority", "summary", "metadata">>

\* json.dumps(value): the text, as the sequence of its key/value pairs
JsonDumps(v) ==
    LET ks == SelectSeq(ReportKeyOrder, LAMBDA k : k \in DOMAIN v)
    IN  [kind |-> "json", pairs |-> [i \in 1..Len(ks) |-> <<ks[i], v[ks[i]]>>]]

\* a file that holds the beginning of a payload
Truncated == [kind |-> "truncated"]
Garbage == [kind |-> "garbage"]
Absent == [absent |-> TRUE]
IsAbsent(x) == "absent" \in DOMAIN x

\* json.loads(text): the object the pairs spell, or a JSONDecodeError (Absent)
JsonLoads(t) ==
    IF t.kind # "json" THEN Absent
    ELSE [k \in {t.pairs[i][1] : i \in DOMAIN t.pairs} |->
            t.pairs[CHOOSE i \in DOMAIN t.pairs : t.pairs[i][1] = k][2]]

(****************************** Cache Store ********************************)
Without(f, k) == [x \in DOMAIN f \ {k} |-> f[x]]

\* Redis GET: a key past its TTL is gone
RedisGet(key, rds, t) ==
    IF key \in DOMAIN rds /\ t < rds[key].expires_at
    THEN JsonLoads(rds[key].value)
    ELSE Absent

\* a SET that leaves a key that is already there as it is (SET NX)
RedisSetex_keeps_existing(key, value, ttl, rds, t) ==
    rds @@ (key :> [value |-> JsonDumps(value), expires_at |-> t + ttl])

\* Redis SETEX key ttl value
RedisSetex(key, value, ttl, rds, t) ==
    (key :> [value |-> JsonDumps(value), expires_at |-> t + ttl]) @@ rds

\* FileIsBad without the stored-expiry test
FileIsBad_no_expiry(content, version, t) ==
    \/ content.kind # "json"
    \/ content.version # version

\* whether a cache file must be dropped: unparsable, other version, expired
FileIsBad(content, version, t) ==
    \/ content.kind # "json"
    \/ content.version # version
    \/ t >= content.stored_at + content.ttl

\* FileGet that reports a bad file as a miss and leaves it where it is
FileGet_keeps_bad(key, fls, version, t) ==
    IF key \notin DOMAIN fls THEN [value |-> Absent, files |-> fls]
    ELSE IF FileIsBad(fls[key], version, t)
         THEN [value |-> Absent, files |-> fls]
    ELSE [value |-> JsonLoads(fls[key].data), files |-> fls]

\* FileGet that hands back the content of a file it cannot parse
FileGet_returns_damaged(key, fls, version, t) ==
    IF key \notin DOMAIN fls THEN [value |-> Absent, files |-> fls]
    ELSE IF fls[key].kind # "json" THEN [value |-> fls[key], files |-> fls]
    ELSE IF FileIsBad(fls[key], version, t)
         THEN [value |-> Absent, files |-> Without(fls, key)]
    ELSE [value |-> JsonLoads(fls[key].data), files |-> fls]

\* file cache read: [value, files]; a bad file is a miss and is removed
FileGet(key, fls, version, t) ==
    IF key \notin DOMAIN fls THEN [value |-> Absent, files |-> fls]
    ELSE IF FileIsBad(fls[key], version, t)
         THEN [value |-> Absent, files |-> Without(fls, key)]
    ELSE [value |-> JsonLoads(fls[key].data), files |-> fls]

\* FileSet that writes the payload without its TTL (read back as zero)
FileSet_without_ttl(key, value, ttl, fls, version, t) ==
    (key :> [kind |-> "json", version |-> version, data |-> JsonDumps(value),
             stored_at |-> t, ttl |-> 0]) @@ fls

\* file cache write: payload with version, stored-at and TTL beside it
FileSet(key, value, ttl, fls, version, t) ==
    (key :> [kind |-> "json", version |-> version, data |-> JsonDumps(value),
             stored_at |-> t, ttl |-> ttl]) @@ fls

\* cache_get that never falls through to the file cache
cache_get_redis_only(key, rds, fls, rUp, dOk, version, t) ==
    IF key.version # version THEN [value |-> Absent, files |-> fls]
    ELSE IF rUp THEN [value |-> RedisGet(key, rds, t), files |-> fls]
    ELSE [value |-> Absent, files |-> fls]

\* cache_get that asks the file cache only when Redis does not answer
cache_get_file_only_when_redis_down(key, rds, fls, rUp, dOk, version, t) ==
    IF key.version # version THEN [value |-> Absent, files |-> fls]
    ELSE IF rUp THEN [value |-> RedisGet(key, rds, t), files |-> fls]
    ELSE IF dOk THEN FileGet(key, fls, version, t)
    ELSE [value |-> Absent, files |-> fls]

\* cache_get(key): Redis first, then the file cache; errors are misses
cache_get(key, rds, fls, rUp, dOk, version, t) ==
    IF key.version # version THEN [value |-> Absent, files |-> fls]
    ELSE IF rUp /\ ~IsAbsent(RedisGet(key, rds, t))
         THEN [value |-> RedisGet(key, rds, t), files |-> fls]
    ELSE IF dOk THEN FileGet(key, fls, version, t)
    ELSE [value |-> Absent, files |-> fls]

\* cache_set that gives up when Redis does not answer
cache_set_no_fallback(key, value, ttl, rds, fls, rUp, dOk, version, t) ==
    IF rUp THEN [via |-> "redis", redis |-> RedisSetex(key, value, ttl, rds, t),
                 files |-> fls]
    ELSE [via |-> "none", redis |-> rds, files |-> fls]

\* cache_set(key, value, ttl): Redis when it answers, else the file cache,
\* else nothing (logged)
cache_set(key, value, ttl, rds, fls, rUp, dOk, version, t) ==
    IF rUp THEN [via |-> "redis", redis |-> RedisSetex(key, value, ttl, rds, t),
                 files |-> fls]
    ELSE IF dOk THEN [via |-> "file", redis |-> rds,
                      files |-> FileSet(key, value, ttl, fls, version, t)]
    ELSE [via |-> "none", redis |-> rds, files |-> fls]

\* cache_clear that deletes the cache files and forgets the Redis keys
cache_clear_files_only(rds, fls, rUp, dOk) ==
    [cleared |-> IF dOk THEN Cardinality(DOMAIN fls) ELSE 0,
     redis |-> rds,
     files |-> IF dOk THEN <<>> ELSE fls]

\* cache_clear(): every entry of every backend that answers; the count removed
cache_clear(rds, fls, rUp, dOk) ==
    [cleared |-> (IF rUp THEN Cardinality(DOMAIN rds) ELSE 0)
                 + (IF dOk THEN Cardinality(DOMAIN fls) ELSE 0),
     redis |-> IF rUp THEN <<>> ELSE rds,
     files |-> IF dOk THEN <<>> ELSE fls]

(********************************* Agents **********************************)
AgentNames == <<"IdeaUnderstandingAgent", "FundingStageAgent", "RaiseAmountAgent",
                "InvestorTypeAgent", "RunwayAgent", "FinancialPriorityAgent">>
\* the context key each agent writes
AgentKeys == <<"idea_profile", "funding_stage", "raise_amount", "investor_type",
               "runway", "financial_priority">>
\* the section of the output each agent fills
SectionKeys == <<"idea_understanding", "funding_stage", "raise_amount",
                 "investor_type", "runway", "financial_priority">>
NumAgents == Len(AgentNames)

\* the profile an agent finds in input_dict["ideaProfile"]
ProfileSeen(d) == IF "ideaProfile" \in DOMAIN d THEN d.ideaProfile.by ELSE "none"

\* what agent i returns when its call succeeds: built from the input and from
\* the outputs of earlier agents that are in the context
AgentOutput(i, d, ctx) ==
    [by |-> "llm", agent |-> AgentNames[i], name |-> d.startupName,
     profile |-> ProfileSeen(d),
     upstream |-> {AgentKeys[j] : j \in 1..(i - 1)} \cap DOMAIN ctx]

\* the rule-based profile, from the input alone
HeuristicProfile(d) ==
    [by |-> "heuristic", agent |-> AgentNames[1], name |-> d.startupName,
     profile |-> "none", upstream |-> {}]

\* IdeaUnderstandingAgent raises and nothing is injected in its place
OnIdeaAgentFailure_no_inject ==
    [status |-> "failed", inject |-> FALSE, abort |-> FALSE]

\* IdeaUnderstandingAgent raises: the profile is injected, the step logged as failed
OnIdeaAgentFailure_marked_failed == [status |-> "failed", inject |-> TRUE, abort |-> FALSE]

\* IdeaUnderstandingAgent raises: the heuristic profile is injected
OnIdeaAgentFailure == [status |-> "fallback", inject |-> TRUE, abort |-> FALSE]

\* another agent raises and the exception leaves run()
OnOtherAgentFailure_raise == [status |-> "failed", inject |-> FALSE, abort |-> TRUE]

\* another agent raises: logged as failed, the chain goes on
OnOtherAgentFailure == [status |-> "failed", inject |-> FALSE, abort |-> FALSE]

\* what the orchestrator does when agent i raises
OnAgentFailure(i) == IF i = 1 THEN OnIdeaAgentFailure ELSE OnOtherAgentFailure

(***************************** Result Assembler ****************************)
Unavailable == [by |-> "unavailable"]

Section(ctx, key) == IF key \in DOMAIN ctx THEN ctx[key] ELSE Unavailable

\* a summary whose wording depends on the time it is written
Summary_dated(d, ctx) ==
    [name |-> d.startup_name,
     stage |-> Section(ctx, "funding_stage").by,
     amount |-> IF now = 0 THEN Section(ctx, "raise_amount").by ELSE "later"]

Summary(d, ctx) ==
    [name |-> d.startup_name,
     stage |-> Section(ctx, "funding_stage").by,
     amount |-> Section(ctx, "raise_amount").by]

\* _build_output that leaves out the section of an agent that gave nothing
build_output_skips_missing(d, ctx) ==
    LET full == [startup_name |-> d.startup_name,
                 idea_understanding |-> Section(ctx, "idea_profile"),
                 funding_stage |-> Section(ctx, "funding_stage"),
                 raise_amount |-> Section(ctx, "raise_amount"),
                 investor_type |-> Section(ctx, "investor_type"),
                 runway |-> Section(ctx, "runway"),
                 financial_priority |-> Section(ctx, "financial_priority"),
                 summary |-> Summary(d, ctx)]
        sections == {SectionKeys[i] : i \in DOMAIN SectionKeys}
        kept == {x \in DOMAIN full :
                    x \in sections => full[x].by # "unavailable"}
    IN  [k \in kept |-> full[k]]

\* _build_output(): the sections and the summary
build_output(d, ctx) ==
    [startup_name |-> d.startup_name,
     idea_understanding |-> Section(ctx, "idea_profile"),
     funding_stage |-> Section(ctx, "funding_stage"),
     raise_amount |-> Section(ctx, "raise_amount"),
     investor_type |-> Section(ctx, "investor_type"),
     runway |-> Section(ctx, "runway"),
     financial_priority |-> Section(ctx, "financial_priority"),
     summary |-> Summary(d, ctx)]

\* the metadata of a fresh run
FreshMetadata(lg, execTime, t) ==
    [execution_time_seconds |-> execTime, timestamp |-> t,
     agents_executed |-> [i \in 1..Len(lg) |-> lg[i].agent],
     execution_log |-> lg, cached |-> FALSE]

\* HitMetadata that reports the retrieval time as the original execution time
HitMetadata_retrieval_as_original(stored, retrieval) ==
    [cached |-> TRUE, cache_retrieval_time_seconds |-> retrieval,
     original_execution_time_seconds |-> retrieval]
    @@ stored.metadata

\* the metadata of a cache hit: the stored metadata, annotated
HitMetadata(stored, retrieval) ==
    [cached |-> TRUE, cache_retrieval_time_seconds |-> retrieval,
     original_execution_time_seconds |-> stored.metadata.execution_time_seconds]
    @@ stored.metadata

(************************** front end: user store **************************)
Signups == 1..NumSignups

\* the emails of the signup requests; "" stands for a body without email
Emails == {"a@x", "A@x", "b@x"}
NoEmail == ""

\* String.prototype.toLowerCase on the emails of the model
toLowerCase(e) == IF e = "A@x" THEN "a@x" ELSE e

\* data/users.json: not there (ENOENT), open for writing and still empty, or
\* the JSON of the users
NoFile == [kind |-> "enoent", users |-> <<>>]
Truncated_users == [kind |-> "truncated", users |-> <<>>]
UsersJson(us) == [kind |-> "json", users |-> us]

\* loadUsers(): the users in the file, [] when the file is not there; it
\* throws when JSON.parse cannot read the content
loadUsers_throws(file) == file.kind = "truncated"
loadUsers(file) == file.users

\* users.find((u) => u.email.toLowerCase() === email.toLowerCase())
findUserByEmail(us, email) ==
    \E i \in DOMAIN us : toLowerCase(us[i].email) = toLowerCase(email)

\* a signup request that has not arrived
NoSignup == [pc |-> "idle", email |-> NoEmail, users |-> <<>>, status |-> 0]

(****************************** initial state ******************************)
NoKey == [version |-> 0, digest |-> Sha256(<<>>)]
NoProbe == [via |-> "none", redisUp |-> FALSE, diskOk |-> FALSE, value |-> Absent]
Resting == {"idle", "done", "error"}

\* the state after start-up, for an environment that stays within lim
InitWith(lim) ==
    /\ limits = lim
    /\ now = 0
    /\ cacheVersion = 1
    /\ redisUp \in BOOLEAN
    /\ diskOk = TRUE
    /\ redis = <<>>
    /\ files = <<>>
    /\ pc = [r \in Runs |-> "idle"]
    /\ raw = [r \in Runs |-> [startupName |-> None, teamSize |-> None,
                              user_id |-> None, timestamp |-> None]]
    /\ input_dict = [r \in Runs |-> <<>>]
    /\ fp = [r \in Runs |-> NoKey]
    /\ got = [r \in Runs |-> Absent]
    /\ context = [r \in Runs |-> <<>>]
    /\ log = [r \in Runs |-> <<>>]
    /\ step = [r \in Runs |-> 1]
    /\ startedAt = [r \in Runs |-> 0]
    /\ report = [r \in Runs |-> Absent]
    /\ result = [r \in Runs |-> Absent]
    /\ apiCalls = [r \in Runs |-> 0]
    /\ setCalls = [r \in Runs |-> 0]
    /\ requests = 0
    /\ failures = 0
    /\ envEvents = 0
    /\ history = <<>>
    /\ setLog = <<>>
    /\ outcomes = [r \in Runs |-> <<>>]
    /\ probe = [r \in Runs |-> NoProbe]
    /\ disturbed = {}
    /\ usersFile = NoFile
    /\ signup = [p \in Signups |-> NoSignup]

\* requests one after another; few agent failures; the environment acts
Init ==
    InitWith([requests |-> MaxRequests, failures |-> MaxStepFailures,
              envEvents |-> MaxEnvEvents, time |-> MaxTime, concurrent |-> 1])

(************************** ChainManager.run() *****************************)
cacheVars == <<redis, files>>
envVars == <<now, cacheVersion, redisUp, diskOk>>
runVars == <<raw, input_dict, fp, got, context, log, step, startedAt, report,
             result, apiCalls, setCalls, probe, outcomes>>

\* a request arrives and a run starts on it
Receive(r) ==
    /\ pc[r] \in Resting
    /\ \A o \in Runs : o < r => pc[o] \notin Resting
    /\ Cardinality({o \in Runs : pc[o] \notin Resting}) < limits.concurrent
    /\ requests < limits.requests
    /\ \E q \in Requests : raw' = [raw EXCEPT ![r] = q]
    /\ pc' = [pc EXCEPT ![r] = "start"]
    /\ input_dict' = [input_dict EXCEPT ![r] = <<>>]
    /\ fp' = [fp EXCEPT ![r] = NoKey]
    /\ got' = [got EXCEPT ![r] = Absent]
    /\ context' = [context EXCEPT ![r] = <<>>]
    /\ log' = [log EXCEPT ![r] = <<>>]
    /\ step' = [step EXCEPT ![r] = 1]
    /\ startedAt' = [startedAt EXCEPT ![r] = now]
    /\ report' = [report EXCEPT ![r] = Absent]
    /\ result' = [result EXCEPT ![r] = Absent]
    /\ apiCalls' = [apiCalls EXCEPT ![r] = 0]
    /\ setCalls' = [setCalls EXCEPT ![r] = 0]
    /\ probe' = [probe EXCEPT ![r] = NoProbe]
    /\ outcomes' = [outcomes EXCEPT ![r] = <<>>]
    /\ requests' = requests + 1
    /\ disturbed' = IF \E o \in Runs \ {r} : pc[o] \notin Resting
                    THEN disturbed \cup {"overlap"} ELSE disturbed
    /\ UNCHANGED <<userVars, envVars, cacheVars, failures, envEvents, history, setLog, limits>>

\* 1. validate and normalize the input
Validate(r) ==
    /\ pc[r] = "start"
    /\ input_dict' = [input_dict EXCEPT ![r] = Normalize(raw[r])]
    /\ pc' = [pc EXCEPT ![r] = "normalized"]
    /\ UNCHANGED <<userVars, envVars, cacheVars, raw, fp, got, context, log, step, startedAt,
                   report,
                   result, apiCalls, setCalls, probe, outcomes, requests, failures,
                   envEvents, history, setLog, disturbed, limits>>

\* CheckCache that lets the error of a cache with no backend leave run()
CheckCache_raises(r) ==
    /\ pc[r] = "normalized"
    /\ LET key == compute_hash(input_dict[r], cacheVersion)
           g == cache_get(key, redis, files, redisUp, diskOk, cacheVersion, now)
       IN  /\ fp' = [fp EXCEPT ![r] = key]
           /\ got' = [got EXCEPT ![r] = g.value]
           /\ files' = g.files
    /\ pc' = [pc EXCEPT ![r] = IF ~redisUp /\ ~diskOk THEN "error"
                                ELSE "cache-checked"]
    /\ UNCHANGED <<userVars, envVars, redis, raw, input_dict, context, log, step, startedAt,
                   report, result, apiCalls, setCalls, probe, outcomes, requests,
                   failures, envEvents, history, setLog, disturbed, limits>>

\* 3. compute the cache key and cache_get(cache_key)
CheckCache(r) ==
    /\ pc[r] = "normalized"
    /\ LET key == compute_hash(input_dict[r], cacheVersion)
           g == cache_get(key, redis, files, redisUp, diskOk, cacheVersion, now)
       IN  /\ fp' = [fp EXCEPT ![r] = key]
           /\ got' = [got EXCEPT ![r] = g.value]
           /\ files' = g.files
    /\ pc' = [pc EXCEPT ![r] = "cache-checked"]
    /\ UNCHANGED <<userVars, envVars, redis, raw, input_dict, context, log, step, startedAt,
                   report,
                   result, apiCalls, setCalls, probe, outcomes, requests, failures,
                   envEvents, history, setLog, disturbed, limits>>

Completed(r, res) ==
    Append(history, [fp |-> fp[r], cached |-> res.metadata.cached,
                     calls |-> apiCalls[r]])

\* ReturnCached that starts the TTL of the entry anew on a hit
ReturnCached_refreshes_ttl(r) ==
    /\ pc[r] = "cache-checked"
    /\ ~IsAbsent(got[r])
    /\ LET res == [got[r] EXCEPT !.metadata = HitMetadata(got[r], now - startedAt[r])]
       IN  /\ result' = [result EXCEPT ![r] = res]
           /\ history' = Completed(r, res)
    /\ pc' = [pc EXCEPT ![r] = "done"]
    /\ redis' = [k \in DOMAIN redis |->
                    IF k = fp[r] THEN [redis[k] EXCEPT !.expires_at = now + CacheTTL]
                    ELSE redis[k]]
    /\ files' = [k \in DOMAIN files |->
                    IF k = fp[r] /\ files[k].kind = "json"
                    THEN [files[k] EXCEPT !.stored_at = now]
                    ELSE files[k]]
    /\ UNCHANGED <<userVars, envVars, raw, input_dict, fp, got, context, log,
                   step, startedAt, report, apiCalls, setCalls, probe, outcomes,
                   requests, failures,
                   envEvents, setLog, disturbed, limits>>

\* 3c. on a hit: return the cached result, annotated
ReturnCached(r) ==
    /\ pc[r] = "cache-checked"
    /\ ~IsAbsent(got[r])
    /\ LET res == [got[r] EXCEPT !.metadata = HitMetadata(got[r], now - startedAt[r])]
       IN  /\ result' = [result EXCEPT ![r] = res]
           /\ history' = Completed(r, res)
    /\ pc' = [pc EXCEPT ![r] = "done"]
    /\ UNCHANGED <<userVars, envVars, cacheVars, raw, input_dict, fp, got, context, log,
                   step, startedAt, report, apiCalls, setCalls, probe, outcomes,
                   requests, failures,
                   envEvents, setLog, disturbed, limits>>

\* 4a. on a miss: initialize the context
StartAgents(r) ==
    /\ pc[r] = "cache-checked"
    /\ IsAbsent(got[r])
    /\ context' = [context EXCEPT ![r] = [input |-> input_dict[r]]]
    /\ log' = [log EXCEPT ![r] = <<>>]
    /\ step' = [step EXCEPT ![r] = 1]
    /\ pc' = [pc EXCEPT ![r] = "running-steps"]
    /\ UNCHANGED <<userVars, envVars, cacheVars, raw, input_dict, fp, got, startedAt, report,
                   result, apiCalls, setCalls, probe, outcomes, requests, failures,
                   envEvents, history, setLog, disturbed, limits>>

\* the input dict and the context after agent i's output (or the injected
\* profile) was merged; the profile also goes into input_dict["ideaProfile"],
\* and context["input"] is that same dict
\* the outputs are kept aside and written into the context after the chain
Merged_deferred(i, d, ctx, out) ==
    LET d2 == IF i = 1 THEN ("ideaProfile" :> out) @@ d ELSE d
    IN  [input_dict |-> d2, context |-> ("input" :> d2) @@ ctx]

\* the context is built anew at each step from the input and the new output
Merged_fresh_context(i, d, ctx, out) ==
    LET d2 == IF i = 1 THEN ("ideaProfile" :> out) @@ d ELSE d
    IN  [input_dict |-> d2,
         context |-> (AgentKeys[i] :> out) @@ ("input" :> d2)]

Merged(i, d, ctx, out) ==
    LET d2 == IF i = 1 THEN ("ideaProfile" :> out) @@ d ELSE d
    IN  [input_dict |-> d2,
         context |-> (AgentKeys[i] :> out) @@ ("input" :> d2) @@ ctx]

\* RunAgent that writes a log entry only for an agent whose call failed
RunAgent_logs_failures_only(r) ==
    /\ pc[r] = "running-steps"
    /\ step[r] <= NumAgents
    /\ \E ok \in BOOLEAN :
         LET i == step[r]
             dec == OnAgentFailure(i)
             out == IF ok THEN AgentOutput(i, input_dict[r], context[r])
                    ELSE HeuristicProfile(input_dict[r])
             m == Merged(i, input_dict[r], context[r], out)
             entry == IF ok THEN [agent |-> AgentNames[i], status |-> "ok"]
                      ELSE [agent |-> AgentNames[i], status |-> dec.status,
                            error |-> "call failed"]
         IN  /\ ok \/ failures < limits.failures
             /\ failures' = IF ok THEN failures ELSE failures + 1
             /\ apiCalls' = [apiCalls EXCEPT ![r] = @ + 1]
             /\ outcomes' = [outcomes EXCEPT ![r] = Append(@, ok)]
             /\ IF ~ok /\ dec.abort
                THEN /\ pc' = [pc EXCEPT ![r] = "error"]
                     /\ UNCHANGED <<input_dict, context, log, step>>
                ELSE /\ input_dict' = [input_dict EXCEPT ![r] =
                                          IF ok \/ dec.inject THEN m.input_dict ELSE @]
                     /\ context' = [context EXCEPT ![r] =
                                       IF ok \/ dec.inject THEN m.context ELSE @]
                     /\ log' = [log EXCEPT ![r] = IF ok THEN @ ELSE Append(@, entry)]
                     /\ step' = [step EXCEPT ![r] = i + 1]
                     /\ pc' = [pc EXCEPT ![r] =
                                  IF i = NumAgents THEN "assembling" ELSE "running-steps"]
    /\ UNCHANGED <<userVars, envVars, cacheVars, raw, fp, got, startedAt, report, result,
                   setCalls, probe, requests, envEvents, history, setLog,
                   disturbed, limits>>

\* 4b. the next agent runs; its call succeeds or fails
RunAgent(r) ==
    /\ pc[r] = "running-steps"
    /\ step[r] <= NumAgents
    /\ \E ok \in BOOLEAN :
         LET i == step[r]
             dec == OnAgentFailure(i)
             out == IF ok THEN AgentOutput(i, input_dict[r], context[r])
                    ELSE HeuristicProfile(input_dict[r])
             m == Merged(i, input_dict[r], context[r], out)
             entry == IF ok THEN [agent |-> AgentNames[i], status |-> "ok"]
                      ELSE [agent |-> AgentNames[i], status |-> dec.status,
                            error |-> "call failed"]
         IN  /\ ok \/ failures < limits.failures
             /\ failures' = IF ok THEN failures ELSE failures + 1
             /\ apiCalls' = [apiCalls EXCEPT ![r] = @ + 1]
             /\ outcomes' = [outcomes EXCEPT ![r] = Append(@, ok)]
             /\ IF ~ok /\ dec.abort
                THEN /\ pc' = [pc EXCEPT ![r] = "error"]
                     /\ UNCHANGED <<input_dict, context, log, step>>
                ELSE /\ input_dict' = [input_dict EXCEPT ![r] =
                                          IF ok \/ dec.inject THEN m.input_dict ELSE @]
                     /\ context' = [context EXCEPT ![r] =
                                       IF ok \/ dec.inject THEN m.context ELSE @]
                     /\ log' = [log EXCEPT ![r] = Append(@, entry)]
                     /\ step' = [step EXCEPT ![r] = i + 1]
                     /\ pc' = [pc EXCEPT ![r] =
                                  IF i = NumAgents THEN "assembling" ELSE "running-steps"]
    /\ UNCHANGED <<userVars, envVars, cacheVars, raw, fp, got, startedAt, report, result,
                   setCalls, probe, requests, envEvents, history, setLog,
                   disturbed, limits>>

\* 5./6. _build_output() and the metadata of a fresh run
BuildOutput(r) ==
    /\ pc[r] = "assembling"
    /\ report' = [report EXCEPT ![r] =
                     ("metadata" :> FreshMetadata(log[r], now - startedAt[r], now))
                     @@ build_output(input_dict[r], context[r])]
    /\ pc' = [pc EXCEPT ![r] = "caching"]
    /\ UNCHANGED <<userVars, envVars, cacheVars, raw, input_dict, fp, got, context, log,
                   step, startedAt, result, apiCalls, setCalls, probe, outcomes,
                   requests,
                   failures, envEvents, history, setLog, disturbed, limits>>

\* StoreInCache that skips cache_set when some agent did not answer
StoreInCache_only_clean(r) ==
    /\ pc[r] = "caching"
    /\ LET clean == \A i \in DOMAIN log[r] : log[r][i].status = "ok"
           s == IF clean
                THEN cache_set(fp[r], report[r], CacheTTL, redis, files, redisUp,
                               diskOk, cacheVersion, now)
                ELSE [via |-> "none", redis |-> redis, files |-> files]
       IN  /\ redis' = s.redis
           /\ files' = s.files
           /\ probe' = [probe EXCEPT ![r] =
                           [via |-> s.via, redisUp |-> redisUp, diskOk |-> diskOk,
                            value |-> cache_get(fp[r], s.redis, s.files, redisUp,
                                                diskOk, cacheVersion, now).value]]
           /\ setCalls' = [setCalls EXCEPT ![r] = IF clean THEN @ + 1 ELSE @]
           /\ setLog' = IF clean
                        THEN Append(setLog, [key |-> fp[r], value |-> report[r],
                                             at |-> now])
                        ELSE setLog
    /\ pc' = [pc EXCEPT ![r] = "cached"]
    /\ UNCHANGED <<userVars, envVars, raw, input_dict, fp, got, context, log, step,
                   startedAt, report, result, apiCalls, outcomes, requests,
                   failures, envEvents, history, disturbed, limits>>

\* StoreInCache that lets the failure of a cache with no backend leave run()
StoreInCache_raises(r) ==
    /\ pc[r] = "caching"
    /\ LET s == cache_set(fp[r], report[r], CacheTTL, redis, files, redisUp,
                          diskOk, cacheVersion, now)
       IN  /\ redis' = s.redis
           /\ files' = s.files
           /\ probe' = [probe EXCEPT ![r] =
                           [via |-> s.via, redisUp |-> redisUp, diskOk |-> diskOk,
                            value |-> cache_get(fp[r], s.redis, s.files, redisUp,
                                                diskOk, cacheVersion, now).value]]
    /\ setCalls' = [setCalls EXCEPT ![r] = @ + 1]
    /\ setLog' = Append(setLog, [key |-> fp[r], value |-> report[r], at |-> now])
    /\ pc' = [pc EXCEPT ![r] = IF ~redisUp /\ ~diskOk THEN "error" ELSE "cached"]
    /\ UNCHANGED <<userVars, envVars, raw, input_dict, fp, got, context, log, step,
                   startedAt, report, result, apiCalls, outcomes, requests,
                   failures, envEvents, history, disturbed, limits>>

\* StoreInCache that computes the key again from input_dict as it is after the chain
StoreInCache_recomputes_key(r) ==
    /\ pc[r] = "caching"
    /\ LET s == cache_set(compute_hash(input_dict[r], cacheVersion), report[r], CacheTTL, redis, files, redisUp,
                          diskOk, cacheVersion, now)
       IN  /\ redis' = s.redis
           /\ files' = s.files
           /\ probe' = [probe EXCEPT ![r] =
                           [via |-> s.via, redisUp |-> redisUp, diskOk |-> diskOk,
                            value |-> cache_get(fp[r], s.redis, s.files, redisUp,
                                                diskOk, cacheVersion, now).value]]
    /\ setCalls' = [setCalls EXCEPT ![r] = @ + 1]
    /\ setLog' = Append(setLog, [key |-> compute_hash(input_dict[r], cacheVersion), value |-> report[r], at |-> now])
    /\ pc' = [pc EXCEPT ![r] = "cached"]
    /\ UNCHANGED <<userVars, envVars, raw, input_dict, fp, got, context, log, step,
                   startedAt, report, result, apiCalls, outcomes, requests,
                   failures, envEvents, history, disturbed, limits>>

\* 7. cache_set(cache_key, output, ttl)
StoreInCache(r) ==
    /\ pc[r] = "caching"
    /\ LET s == cache_set(fp[r], report[r], CacheTTL, redis, files, redisUp,
                          diskOk, cacheVersion, now)
       IN  /\ redis' = s.redis
           /\ files' = s.files
           /\ probe' = [probe EXCEPT ![r] =
                           [via |-> s.via, redisUp |-> redisUp, diskOk |-> diskOk,
                            value |-> cache_get(fp[r], s.redis, s.files, redisUp,
                                                diskOk, cacheVersion, now).value]]
    /\ setCalls' = [setCalls EXCEPT ![r] = @ + 1]
    /\ setLog' = Append(setLog, [key |-> fp[r], value |-> report[r], at |-> now])
    /\ pc' = [pc EXCEPT ![r] = "cached"]
    /\ UNCHANGED <<userVars, envVars, raw, input_dict, fp, got, context, log, step,
                   startedAt, report, result, apiCalls, outcomes, requests,
                   failures, envEvents, history, disturbed, limits>>

\* the fresh result is returned
ReturnFresh(r) ==
    /\ pc[r] = "cached"
    /\ result' = [result EXCEPT ![r] = report[r]]
    /\ history' = Completed(r, report[r])
    /\ pc' = [pc EXCEPT ![r] = "done"]
    /\ UNCHANGED <<userVars, envVars, cacheVars, raw, input_dict, fp, got, context, log,
                   step, startedAt, report, apiCalls, setCalls, probe, outcomes,
                   requests, failures,
                   envEvents, setLog, disturbed, limits>>

\* 7'. the file write of cache_set is under way: the file {hash}.json is open
\* for writing and does not yet hold the whole payload
BeginFileWrite(r) ==
    /\ pc[r] = "caching"
    /\ ~redisUp
    /\ diskOk
    /\ files' = (fp[r] :> Truncated) @@ files
    /\ files' # files
    /\ disturbed' = disturbed \cup {"writing"}
    /\ UNCHANGED <<userVars, envVars, redis, pc, runVars, requests, failures, envEvents,
                   history, setLog, limits>>

(****************************** environment ********************************)
\* time passes; Redis drops the keys whose TTL ran out
Tick ==
    /\ now < limits.time
    /\ now' = now + 1
    /\ redis' = [k \in {x \in DOMAIN redis : now + 1 < redis[x].expires_at} |-> redis[k]]
    /\ disturbed' = IF \E i \in DOMAIN setLog : now + 1 >= setLog[i].at + CacheTTL
                    THEN disturbed \cup {"expiry"} ELSE disturbed
    /\ UNCHANGED <<userVars, cacheVersion, redisUp, diskOk, files, pc, runVars, requests,
                   failures, envEvents, history, setLog, limits>>

\* Redis becomes unreachable, or reachable again
RedisToggle ==
    /\ envEvents < limits.envEvents
    /\ redisUp' = ~redisUp
    /\ envEvents' = envEvents + 1
    /\ disturbed' = disturbed \cup {"backend"}
    /\ UNCHANGED <<userVars, now, cacheVersion, diskOk, cacheVars, pc, runVars, requests,
                   failures, history, setLog, limits>>

\* the cache directory stops working (disk full), or works again
DiskToggle ==
    /\ envEvents < limits.envEvents
    /\ diskOk' = ~diskOk
    /\ envEvents' = envEvents + 1
    /\ disturbed' = disturbed \cup {"backend"}
    /\ UNCHANGED <<userVars, now, cacheVersion, redisUp, cacheVars, pc, runVars, requests,
                   failures, history, setLog, limits>>

\* a deployment with CACHE_VERSION incremented; no run is in flight across it
BumpVersion ==
    /\ envEvents < limits.envEvents
    /\ cacheVersion < MaxVersion
    /\ \A r \in Runs : pc[r] \in Resting
    /\ cacheVersion' = cacheVersion + 1
    /\ envEvents' = envEvents + 1
    /\ disturbed' = disturbed \cup {"version"}
    /\ UNCHANGED <<userVars, now, redisUp, diskOk, cacheVars, pc, runVars, requests,
                   failures, history, setLog, limits>>

\* POST /api/cache/clear
ClearCache ==
    /\ envEvents < limits.envEvents
    /\ LET c == cache_clear(redis, files, redisUp, diskOk)
       IN  /\ redis' = c.redis
           /\ files' = c.files
    /\ envEvents' = envEvents + 1
    /\ disturbed' = disturbed \cup {"clear"}
    /\ UNCHANGED <<userVars, envVars, pc, runVars, requests, failures, history, setLog, limits>>

\* a cache file is damaged on disk
CorruptFile ==
    /\ envEvents < limits.envEvents
    /\ \E k \in DOMAIN files :
         /\ files[k] # Garbage
         /\ files' = [files EXCEPT ![k] = Garbage]
    /\ envEvents' = envEvents + 1
    /\ disturbed' = disturbed \cup {"corrupt"}
    /\ UNCHANGED <<userVars, envVars, redis, pc, runVars, requests, failures, history,
                   setLog, limits>>

\* the caller goes away while the chain is running and run() is set to stop
Disconnect_cancels ==
    \E r \in Runs :
        /\ pc[r] \in {"running-steps", "assembling", "caching"}
        /\ "disconnect" \notin disturbed
        /\ disturbed' = disturbed \cup {"disconnect"}
        /\ pc' = [pc EXCEPT ![r] = "error"]
        /\ UNCHANGED <<userVars, envVars, cacheVars, runVars, requests, failures, envEvents,
                       history, setLog, limits>>

\* the caller goes away while the chain is running; run() is not told
Disconnect ==
    \E r \in Runs :
        /\ pc[r] \in {"running-steps", "assembling", "caching"}
        /\ "disconnect" \notin disturbed
        /\ disturbed' = disturbed \cup {"disconnect"}
        /\ pc' = pc
        /\ UNCHANGED <<userVars, envVars, cacheVars, runVars, requests, failures, envEvents,
                       history, setLog, limits>>

\* a defect of the orchestrator itself, outside the agents and the cache
\* (while the context or the output is put together): the exception leaves
\* run()
OrchestratorError ==
    \E r \in Runs :
        /\ pc[r] \in {"cache-checked", "running-steps", "assembling"}
        /\ IsAbsent(got[r])
        /\ "defect" \notin disturbed
        /\ disturbed' = disturbed \cup {"defect"}
        /\ pc' = [pc EXCEPT ![r] = "error"]
        /\ UNCHANGED <<userVars, envVars, cacheVars, runVars, requests, failures, envEvents,
                       history, setLog, limits>>

(************************ front end: POST /api/signup ***********************)
Responded(p, code) ==
    signup' = [signup EXCEPT ![p].pc = "responded", ![p].status = code]

\* the request arrives; a body without email is answered 400
Post(p) ==
    /\ signup[p].pc = "idle"
    /\ \E e \in Emails \cup {NoEmail} :
         signup' = [signup EXCEPT ![p] =
                       IF e = NoEmail
                       THEN [@ EXCEPT !.pc = "responded", !.status = 400]
                       ELSE [@ EXCEPT !.pc = "check", !.email = e]]
    /\ UNCHANGED <<pipelineVars, usersFile>>

\* route: const existingUser = await findUserByEmail(email)
CheckExisting(p) ==
    /\ signup[p].pc = "check"
    /\ IF loadUsers_throws(usersFile) THEN Responded(p, 500)
       ELSE IF findUserByEmail(loadUsers(usersFile), signup[p].email)
            THEN Responded(p, 409)
       ELSE signup' = [signup EXCEPT ![p].pc = "create"]
    /\ UNCHANGED <<pipelineVars, usersFile>>

\* createUser: const users = await loadUsers()
CreateLoad(p) ==
    /\ signup[p].pc = "create"
    /\ IF loadUsers_throws(usersFile) THEN Responded(p, 500)
       ELSE signup' = [signup EXCEPT ![p].pc = "recheck",
                                     ![p].users = loadUsers(usersFile)]
    /\ UNCHANGED <<pipelineVars, usersFile>>

\* createUser: if (await findUserByEmail(email)) throw ...; then bcrypt.hash
CreateCheck(p) ==
    /\ signup[p].pc = "recheck"
    /\ IF loadUsers_throws(usersFile) THEN Responded(p, 500)
       ELSE IF findUserByEmail(loadUsers(usersFile), signup[p].email)
            THEN Responded(p, 500)
       ELSE signup' = [signup EXCEPT ![p].pc = "push"]
    /\ UNCHANGED <<pipelineVars, usersFile>>

\* createUser: users.push(user); saveUsers(users) opens the file for writing
SaveOpen(p) ==
    /\ signup[p].pc = "push"
    /\ signup' = [signup EXCEPT
                     ![p].pc = "writing",
                     ![p].users = Append(@, [id |-> p,
                                             email |-> toLowerCase(signup[p].email)])]
    /\ usersFile' = Truncated_users
    /\ UNCHANGED pipelineVars

\* saveUsers(users): the JSON is written; createUser returns, the route
\* answers 201
SaveWrite(p) ==
    /\ signup[p].pc = "writing"
    /\ usersFile' = UsersJson(signup[p].users)
    /\ Responded(p, 201)
    /\ UNCHANGED pipelineVars

SignupNext ==
    \E p \in Signups :
        \/ Post(p)
        \/ CheckExisting(p)
        \/ CreateLoad(p)
        \/ CreateCheck(p)
        \/ SaveOpen(p)
        \/ SaveWrite(p)

RunNext(r) ==
    \/ Receive(r)
    \/ Validate(r)
    \/ CheckCache(r)
    \/ ReturnCached(r)
    \/ StartAgents(r)
    \/ RunAgent(r)
    \/ BuildOutput(r)
    \/ StoreInCache(r)
    \/ ReturnFresh(r)

EnvNext ==
    \/ Tick
    \/ RedisToggle
    \/ DiskToggle
    \/ BumpVersion
    \/ ClearCache
    \/ CorruptFile

Next == (\E r \in Runs : RunNext(r)) \/ EnvNext

Spec == Init /\ [][Next]_vars

\* one clean deployment in which every agent call may fail
PipelineInit ==
    InitWith([requests |-> MaxRequests, failures |-> NumAgents * MaxRequests,
              envEvents |-> 0, time |-> 0, concurrent |-> 1])

PipelineSpec == PipelineInit /\ [][\E r \in Runs : RunNext(r)]_vars

\* cache administration while the backends come and go; no agent fails
AdminInit ==
    InitWith([requests |-> MaxRequests, failures |-> 0,
              envEvents |-> MaxEnvEvents + 2, time |-> 0, concurrent |-> 1])

AdminNext ==
    \/ \E r \in Runs : RunNext(r)
    \/ RedisToggle
    \/ DiskToggle
    \/ ClearCache

AdminSpec == AdminInit /\ [][AdminNext]_vars

\* the same request run again after the cache was cleared or its entry
\* expired; agents may fail in either run
RerunInit ==
    InitWith([requests |-> MaxRequests, failures |-> MaxStepFailures + 1,
              envEvents |-> MaxEnvEvents, time |-> 1, concurrent |-> 1])

RerunNext ==
    \/ \E r \in Runs : RunNext(r)
    \/ Tick
    \/ ClearCache

RerunSpec == RerunInit /\ [][RerunNext]_vars

\* requests handled at the same time by the workers of the server
ConcInit ==
    InitWith([requests |-> MaxRequests, failures |-> MaxStepFailures,
              envEvents |-> 0, time |-> 1, concurrent |-> NumRuns])

ConcNext ==
    \/ \E r \in Runs : RunNext(r)
    \/ \E r \in Runs : BeginFileWrite(r)
    \/ Tick

ConcSpec == ConcInit /\ [][ConcNext]_vars

\* the steps of run(), which go on by themselves once a request is received
RunSteps(r) ==
    \/ Validate(r)
    \/ CheckCache(r)
    \/ ReturnCached(r)
    \/ StartAgents(r)
    \/ RunAgent(r)
    \/ BuildOutput(r)
    \/ StoreInCache(r)
    \/ ReturnFresh(r)

\* runs that are not held up: every call made by run() returns or raises
LiveInit ==
    InitWith([requests |-> MaxRequests, failures |-> MaxStepFailures,
              envEvents |-> MaxEnvEvents, time |-> 0, concurrent |-> 1])

LiveNext ==
    \/ \E r \in Runs : RunNext(r)
    \/ RedisToggle
    \/ DiskToggle
    \/ Disconnect

LiveSpec ==
    /\ LiveInit
    /\ [][LiveNext]_vars
    /\ \A r \in Runs : WF_vars(RunSteps(r))

\* runs in which the orchestrator itself may fail once
DefectInit ==
    InitWith([requests |-> MaxRequests, failures |-> MaxStepFailures,
              envEvents |-> MaxEnvEvents, time |-> 0, concurrent |-> 1])

DefectNext ==
    \/ \E r \in Runs : RunNext(r)
    \/ RedisToggle
    \/ DiskToggle
    \/ OrchestratorError

DefectSpec == DefectInit /\ [][DefectNext]_vars

\* signup requests of the front end; the backend is at rest
SignupInit ==
    InitWith([requests |-> 0, failures |-> 0, envEvents |-> 0, time |-> 0,
              concurrent |-> 1])

SignupSpec == SignupInit /\ [][SignupNext]_vars

\* the normalizer and the fingerprint generator on every raw request
FingerprintInit ==
    /\ limits = [requests |-> 0, failures |-> 0, envEvents |-> 0, time |-> 0,
                 concurrent |-> 1]
    /\ now = 0
    /\ cacheVersion \in 1..MaxVersion
    /\ redisUp = TRUE
    /\ diskOk = TRUE
    /\ redis = <<>>
    /\ files = <<>>
    /\ pc = [r \in Runs |-> IF r = 1 THEN "start" ELSE "idle"]
    /\ \E q \in RawRequests :
         raw = [r \in Runs |-> IF r = 1 THEN q
                               ELSE [startupName |-> None, teamSize |-> None,
                                     user_id |-> None, timestamp |-> None]]
    /\ input_dict = [r \in Runs |-> <<>>]
    /\ fp = [r \in Runs |-> NoKey]
    /\ got = [r \in Runs |-> Absent]
    /\ context = [r \in Runs |-> <<>>]
    /\ log = [r \in Runs |-> <<>>]
    /\ step = [r \in Runs |-> 1]
    /\ startedAt = [r \in Runs |-> 0]
    /\ report = [r \in Runs |-> Absent]
    /\ result = [r \in Runs |-> Absent]
    /\ apiCalls = [r \in Runs |-> 0]
    /\ setCalls = [r \in Runs |-> 0]
    /\ requests = 0
    /\ failures = 0
    /\ envEvents = 0
    /\ history = <<>>
    /\ setLog = <<>>
    /\ outcomes = [r \in Runs |-> <<>>]
    /\ probe = [r \in Runs |-> NoProbe]
    /\ disturbed = {}
    /\ usersFile = NoFile
    /\ signup = [p \in Signups |-> NoSignup]

FingerprintNext == \E r \in Runs : Validate(r) \/ CheckCache(r)

FingerprintSpec == FingerprintInit /\ [][FingerprintNext]_vars

(******************************** properties *******************************)
SameFpBefore(i) == \E j \in 1..(i - 1) : history[j].fp = history[i].fp

\* C1: requests handled one after another with a working cache and no expiry,
\* clear or version change in between: of the requests with one fingerprint
\* the first returns metadata.cached = false after running the six agents,
\* every later one returns metadata.cached = true and runs no agent.
C1_AtMostOnePipelinePerFingerprint ==
    disturbed = {} =>
        \A i \in DOMAIN history :
            /\ history[i].cached <=> SameFpBefore(i)
            /\ history[i].cached => history[i].calls = 0
            /\ ~history[i].cached => history[i].calls = NumAgents

\* two requests with one fingerprint completed, undisturbed: a miss then a hit
C1_Witness ==
    /\ disturbed = {}
    /\ Len(history) = 2
    /\ history[1].fp = history[2].fp
    /\ ~history[1].cached
    /\ history[2].cached

\* C2 as stated: cache_get right after cache_set(fp, R, ttl) returns exactly R.
C2_RoundTripAlways ==
    \A r \in Runs : setCalls[r] = 1 => probe[r].value = report[r]

\* C2 as amended: cache_get right after cache_set(fp, R, ttl) returns exactly
\* R provided Redis or the cache directory was working at the set.
C2_RoundTripWhenABackendWorks ==
    \A r \in Runs :
        (setCalls[r] = 1 /\ (probe[r].redisUp \/ probe[r].diskOk)) =>
            probe[r].value = report[r]

\* a report stored through the file cache because Redis was down, and read back
C2_Witness ==
    \E r \in Runs :
        /\ setCalls[r] = 1
        /\ probe[r].via = "file"
        /\ probe[r].value = report[r]
        /\ ~IsAbsent(report[r])

\* the time of the newest cache_set of key k
LastSetAt(k) ==
    LET I == {i \in DOMAIN setLog : setLog[i].key = k}
    IN  setLog[CHOOSE i \in I : \A j \in I : j <= i].at

SetKeys == {setLog[i].key : i \in DOMAIN setLog}

\* C3: once the TTL of the newest cache_set of a key has elapsed, the key reads
\* absent: from Redis, from the file cache, and from cache_get whatever the
\* state of the backends.
C3_ExpiredIsAbsent ==
    \A k \in SetKeys :
        now >= LastSetAt(k) + CacheTTL =>
            /\ IsAbsent(RedisGet(k, redis, now))
            /\ IsAbsent(FileGet(k, files, k.version, now).value)
            /\ IsAbsent(cache_get(k, redis, files, redisUp, diskOk,
                                  cacheVersion, now).value)

\* a run whose key was stored in the file cache (Redis down throughout), left
\* alone until its TTL ran out, and then read: a miss
C3_Witness ==
    \E r \in Runs :
        /\ disturbed = {"expiry"}
        /\ ~redisUp
        /\ pc[r] = "cache-checked"
        /\ fp[r] \in SetKeys
        /\ now >= LastSetAt(fp[r]) + CacheTTL
        /\ IsAbsent(got[r])

SameInputFields(A, B) == \A f \in InputFields : A[f] = B[f]

\* C4: two raw requests that differ only in the excluded fields (user_id,
\* timestamp) get one cache key at one cache version: after normalization,
\* and also when compute_hash is handed the dicts with those fields in them.
C4_ExcludedFieldsDoNotChangeKey ==
    pc[1] = "cache-checked" =>
        \A B \in RawRequests :
            SameInputFields(raw[1], B) =>
                /\ compute_hash(Normalize(B), cacheVersion) = fp[1]
                /\ compute_hash(B, cacheVersion)
                       = compute_hash(raw[1], cacheVersion)

\* a keyed request that carries a user_id and a timestamp
C4_Witness ==
    /\ pc[1] = "cache-checked"
    /\ raw[1].user_id = Str(<<"u2">>)
    /\ raw[1].timestamp = Num(1)
    /\ raw[1].startupName = Str(<<"a", "b">>)
    /\ fp[1] = compute_hash(Normalize([raw[1] EXCEPT !.user_id = None,
                                                     !.timestamp = None]),
                            cacheVersion)

Spaces(n) == [i \in 1..n |-> " "]

\* s is core with spaces before and after it
Padded(s, core) == \E a, b \in 0..MaxTextLen : s = Spaces(a) \o core \o Spaces(b)

\* A and B differ only in leading/trailing whitespace of the text field
WhitespaceVariant(A, B) ==
    /\ A.startupName.kind = "str"
    /\ B.startupName.kind = "str"
    /\ \E core \in Texts : /\ Padded(A.startupName.val, core)
                           /\ Padded(B.startupName.val, core)
    /\ \A f \in DOMAIN A \ {"startupName"} : A[f] = B[f]

\* C5: two raw requests whose text fields differ only in leading/trailing
\* whitespace normalize to one record and get one cache key.
C5_WhitespaceDoesNotChangeKey ==
    pc[1] = "cache-checked" =>
        \A B \in RawRequests :
            WhitespaceVariant(raw[1], B) =>
                /\ Normalize(B) = input_dict[1]
                /\ compute_hash(Normalize(B), cacheVersion) = fp[1]

NonMeta(x) == [k \in DOMAIN x \ {"metadata"} |-> x[k]]

\* the values cache_set was given for key k
StoredFor(k) == {setLog[i].value : i \in {j \in DOMAIN setLog : setLog[j].key = k}}

\* C6: when cache_get returns a stored report the run goes from cache-checked
\* to done: no agent is called, nothing is logged, cache_set is not called; the
\* result is the stored report (one that cache_set was given for this key)
\* with the stored metadata annotated by cached = true,
\* cache_retrieval_time_seconds and the original execution time.
C6_HitReturnsStoredReport ==
    \A r \in Runs :
        ~IsAbsent(got[r]) =>
            /\ pc[r] \in {"cache-checked", "done"}
            /\ apiCalls[r] = 0
            /\ setCalls[r] = 0
            /\ log[r] = <<>>
            /\ outcomes[r] = <<>>
            /\ got[r] \in StoredFor(fp[r])
            /\ pc[r] = "done" =>
                 /\ NonMeta(result[r]) = NonMeta(got[r])
                 /\ result[r].metadata.cached = TRUE
                 /\ "cache_retrieval_time_seconds" \in DOMAIN result[r].metadata
                 /\ result[r].metadata.original_execution_time_seconds
                        = got[r].metadata.execution_time_seconds
                 /\ \A k \in DOMAIN got[r].metadata \ {"cached"} :
                        result[r].metadata[k] = got[r].metadata[k]

\* a hit returned at once for a report that took one tick to compute
C6_Witness ==
    \E r \in Runs :
        /\ pc[r] = "done"
        /\ ~IsAbsent(got[r])
        /\ result[r].metadata.cached
        /\ result[r].metadata.original_execution_time_seconds = 1
        /\ result[r].metadata.cache_retrieval_time_seconds = 0

\* the run missed the cache and is past cache-checked
MissedAt(r, states) == IsAbsent(got[r]) /\ pc[r] \in states

FirstFailed(r) == Len(outcomes[r]) >= 1 /\ ~outcomes[r][1]

\* the heuristic profile of run r's request
FallbackOf(r) == HeuristicProfile(Normalize(raw[r]))

\* C8: when IdeaUnderstandingAgent fails the run is not stopped and can always
\* take its next step; from the moment of the failure the heuristic profile,
\* computed from the request alone, is in context["idea_profile"] and in
\* input_dict["ideaProfile"], so every later agent that answers has read it;
\* the log marks the first step fallback; the report's idea_understanding is
\* that profile.
C8_FallbackNeverBlocks ==
    \A r \in Runs :
        FirstFailed(r) =>
            /\ pc[r] # "error"
            /\ pc[r] \notin Resting => ENABLED RunNext(r)
            /\ Len(log[r]) >= 1
            /\ log[r][1].agent = AgentNames[1]
            /\ log[r][1].status = "fallback"
            /\ "idea_profile" \in DOMAIN context[r]
            /\ context[r].idea_profile = FallbackOf(r)
            /\ "ideaProfile" \in DOMAIN input_dict[r]
            /\ input_dict[r].ideaProfile = FallbackOf(r)
            /\ context[r].input = input_dict[r]
            /\ \A i \in 2..Len(log[r]) :
                   outcomes[r][i] => context[r][AgentKeys[i]].profile = "heuristic"
            /\ ~IsAbsent(report[r]) =>
                   /\ report[r].idea_understanding = FallbackOf(r)
                   /\ report[r].metadata.execution_log[1].status = "fallback"
            /\ pc[r] = "done" => result[r] = report[r]

\* a run returned after its first agent failed and its second agent answered
C8_Witness ==
    \E r \in Runs :
        /\ FirstFailed(r)
        /\ pc[r] = "done"
        /\ outcomes[r][2]
        /\ result[r].idea_understanding.by = "heuristic"
        /\ result[r].funding_stage.profile = "heuristic"

ReportKeys == {ReportKeyOrder[i] : i \in DOMAIN ReportKeyOrder}

\* C10: whatever the agents' outcomes, and on a hit as on a miss, the result
\* returned has every section (one per agent, each by an agent, by the
\* heuristic or the placeholder), the summary, and the metadata with its
\* cached flag.
C10_ResultIsComplete ==
    \A r \in Runs :
        pc[r] = "done" =>
            /\ DOMAIN result[r] = ReportKeys
            /\ \A i \in 1..NumAgents :
                   result[r][SectionKeys[i]].by \in {"llm", "heuristic", "unavailable"}
            /\ DOMAIN result[r].summary = {"name", "stage", "amount"}
            /\ result[r].metadata.cached \in BOOLEAN
            /\ result[r].metadata.cached <=> ~IsAbsent(got[r])
            /\ Len(result[r].metadata.execution_log) = NumAgents

\* a hit that returned a report in which every agent but the first had failed
C10_Witness ==
    \E r \in Runs :
        /\ pc[r] = "done"
        /\ result[r].metadata.cached
        /\ result[r].idea_understanding.by = "llm"
        /\ \A i \in 2..NumAgents : result[r][SectionKeys[i]] = Unavailable

\* the value of the newest cache_set of key k
LastSetValue(k) ==
    LET I == {i \in DOMAIN setLog : setLog[i].key = k}
    IN  setLog[CHOOSE i \in I : \A j \in I : j <= i].value

\* what a cache without faults returns for key k: the newest value set for it
IdealGet(k) == IF k \in SetKeys THEN LastSetValue(k) ELSE Absent

\* C11: whenever Redis is unreachable at a cache_set and the cache directory
\* works, the report is stored through the file cache and the cache_get right
\* after it returns it.  With Redis unreachable all along (and nothing else
\* disturbing the cache) the cache_get of a later run returns it too, no run
\* ends in error, and what is returned is what a cache with Redis up returns:
\* the newest value set for the key on a hit, the fresh report on a miss.
C11_FileCacheServesWhenRedisIsDown ==
    /\ \A r \in Runs :
           (setCalls[r] = 1 /\ ~probe[r].redisUp /\ probe[r].diskOk) =>
               probe[r].via = "file" /\ probe[r].value = report[r]
    /\ disturbed = {} =>
        \A r \in Runs :
            /\ pc[r] # "error"
            /\ setCalls[r] = 1 =>
                 /\ probe[r].via = IF redisUp THEN "redis" ELSE "file"
                 /\ probe[r].value = report[r]
                 /\ ~redisUp => fp[r] \in DOMAIN files /\ redis = <<>>
            /\ pc[r] = "cache-checked" => got[r] = IdealGet(fp[r])
            /\ pc[r] = "done" =>
                 IF IsAbsent(got[r])
                 THEN result[r] = report[r]
                 ELSE /\ NonMeta(result[r]) = NonMeta(IdealGet(fp[r]))
                      /\ result[r].metadata.cached

\* Redis down all along: a report stored in a file and served to a later run
C11_Witness ==
    /\ ~redisUp
    /\ disturbed = {}
    /\ redis = <<>>
    /\ \E r \in Runs :
           /\ pc[r] = "done"
           /\ ~IsAbsent(got[r])
           /\ fp[r] \in DOMAIN files
           /\ result[r].metadata.cached

BothDown == ~redisUp /\ ~diskOk

\* no run is stopped, and a cache_set that stored nothing changes no report
C12_Always ==
    \A r \in Runs :
        /\ pc[r] # "error"
        /\ pc[r] \notin Resting => ENABLED RunNext(r)
        /\ (setCalls[r] = 1 /\ probe[r].via = "none") =>
               /\ pc[r] \in {"cached", "done"}
               /\ ~IsAbsent(report[r])
        /\ MissedAt(r, {"cached", "done"}) =>
               report[r] = ("metadata" :> FreshMetadata(log[r],
                                             report[r].metadata.execution_time_seconds,
                                             report[r].metadata.timestamp))
                           @@ build_output(input_dict[r], context[r])
        /\ MissedAt(r, {"done"}) => result[r] = report[r]

\* the steps of a run around the cache
C12_Step ==
    \A r \in Runs :
        /\ (pc[r] = "normalized" /\ pc'[r] = "cache-checked" /\ BothDown) =>
               /\ IsAbsent(got'[r])
               /\ redis' = redis
               /\ files' = files
        /\ (pc[r] = "cache-checked" /\ IsAbsent(got[r]) /\ pc'[r] # pc[r]) =>
               pc'[r] = "running-steps"
        /\ (pc[r] = "caching" /\ pc'[r] # pc[r]) =>
               /\ pc'[r] = "cached"
               /\ report'[r] = report[r]
               /\ BothDown => redis' = redis /\ files' = files
        /\ (pc[r] = "cached" /\ pc'[r] # pc[r]) =>
               /\ pc'[r] = "done"
               /\ result'[r] = report[r]

\* C12: whatever fails in the cache, both backends at once included, no run
\* ends in error and every run can take its next step until it is done; a
\* cache_get made with both backends down is a miss and the agents run; a
\* cache_set that stores nothing is followed by the return of the report as
\* it was assembled.
C12_CacheFailuresNeverFailARequest == [](C12_Always) /\ [][C12_Step]_vars

\* both backends down: nothing was stored, the same request ran the agents
\* twice, and both runs returned
C12_Witness ==
    /\ BothDown
    /\ redis = <<>>
    /\ files = <<>>
    /\ Len(history) = 2
    /\ history[1].fp = history[2].fp
    /\ ~history[2].cached
    /\ \E r \in Runs : pc[r] = "done" /\ setCalls[r] = 1 /\ probe[r].via = "none"

\* the run is between the computation of its key and its return
Keyed(r) == pc[r] \in {"cache-checked", "running-steps", "assembling", "caching",
                       "cached"}

\* C13: a key computed after CACHE_VERSION changed carries the new version;
\* cache_get for it returns only values that cache_set was given under that
\* very key, never an entry stored under the old version, although the old
\* entry is still in storage; so a request served before the change is a miss
\* after it: only a request whose full key was seen before is served from the
\* cache.
C13_OldVersionIsNeverServed ==
    /\ \A r \in Runs :
           /\ Keyed(r) => fp[r].version = cacheVersion
           /\ ~IsAbsent(got[r]) =>
                  \E i \in DOMAIN setLog :
                      /\ setLog[i].key.version = fp[r].version
                      /\ setLog[i].key.digest = fp[r].digest
                      /\ setLog[i].value = got[r]
           /\ (Keyed(r) /\ \A i \in DOMAIN setLog :
                               setLog[i].key.version # cacheVersion) =>
                  IsAbsent(got[r])
    /\ \A i \in DOMAIN history : history[i].cached => SameFpBefore(i)

\* after the version changed the same request missed and ran the agents again
\* while the entry of the old version was still in storage and not expired
C13_Witness ==
    /\ disturbed = {"version"}
    /\ Len(history) = 2
    /\ history[1].fp.digest = history[2].fp.digest
    /\ history[1].fp.version = 1
    /\ history[2].fp.version = 2
    /\ ~history[2].cached
    /\ history[2].calls = NumAgents
    /\ history[1].fp \in DOMAIN redis \cup DOMAIN files

\* the file of key k is unparsable, of another version, or past its TTL
BadFile(k) ==
    IF files[k] = Garbage THEN TRUE
    ELSE \/ files[k].version # cacheVersion
         \/ now >= files[k].stored_at + files[k].ttl

\* Redis has nothing to give for key k
RedisSilent(k) == ~redisUp \/ IsAbsent(RedisGet(k, redis, now))

Entries(rds, fls) == Cardinality(DOMAIN rds) + Cardinality(DOMAIN fls)

\* no cache_get can return anything for a key set so far, whichever backends
\* answer
NothingServable(rds, fls) ==
    \A k \in SetKeys : \A rUp, dOk \in BOOLEAN :
        IsAbsent(cache_get(k, rds, fls, rUp, dOk, k.version, now).value)

Malformed(q) ==
    \/ q.startupName.kind = "none"
    \/ q.teamSize.kind = "none"
    \/ (q.teamSize.kind = "str" /\ q.teamSize.val # <<"3">>)

Untimed(x) ==
    [k \in DOMAIN x |->
        IF k = "metadata"
        THEN [m \in DOMAIN x[k] \ {"execution_time_seconds", "timestamp"} |->
                 x[k][m]]
        ELSE x[k]]

\* the outcome of each step of the run that produced report x
StepOutcomes(x) ==
    [n \in DOMAIN x.metadata.execution_log |-> x.metadata.execution_log[n].status]

\* two runs of one request that both found nothing in the cache
Reruns ==
    {p \in (DOMAIN setLog) \X (DOMAIN setLog) :
        p[1] < p[2] /\ setLog[p[1]].key.digest = setLog[p[2]].key.digest}

Working == {"running-steps", "assembling", "caching", "cached"}

\* runs a and b have the same key, both found nothing in the cache, and a is
\* in one of the given stages
BothMissed(a, b, stages) ==
    /\ a # b
    /\ fp[a] = fp[b]
    /\ MissedAt(a, stages)
    /\ MissedAt(b, Working \cup {"done"})

\* C18: two runs with the same key that both miss both call every agent once
\* and both call cache_set once, none waiting for the other; after both have
\* finished each has returned its own report, and the cache holds for the key
\* one complete entry, the report of the later of the two cache_set calls.
C18_NoCoalescing ==
    \A a, b \in Runs :
        /\ BothMissed(a, b, Working) => ENABLED RunNext(a)
        /\ (BothMissed(a, b, {"done"}) /\ pc[b] = "done") =>
              LET held == cache_get(fp[a], redis, files, redisUp, diskOk,
                                    cacheVersion, now).value
              IN  /\ apiCalls[a] = NumAgents
                  /\ Len(log[a]) = NumAgents
                  /\ setCalls[a] = 1
                  /\ result[a] = report[a]
                  /\ Cardinality({i \in DOMAIN setLog : setLog[i].key = fp[a]}) >= 2
                  /\ {report[a], report[b]} \subseteq StoredFor(fp[a])
                  /\ held = LastSetValue(fp[a])
                  /\ DOMAIN held = ReportKeys
                  /\ IF redisUp
                     THEN fp[a] \in DOMAIN redis /\ fp[a] \notin DOMAIN files
                     ELSE fp[a] \in DOMAIN files /\ fp[a] \notin DOMAIN redis

\* two runs with one key both missed and finished with different reports; the
\* cache holds the later one
C18_Witness ==
    \E a, b \in Runs :
        /\ BothMissed(a, b, {"done"})
        /\ pc[b] = "done"
        /\ report[a] # report[b]
        /\ LastSetValue(fp[a]) = report[b]
        /\ cache_get(fp[a], redis, files, redisUp, diskOk, cacheVersion,
                     now).value = report[b]

\* what a reader may be given for key k: nothing, or the whole report of one
\* of the cache_set calls for k
WholeOrAbsent(x, k) == IsAbsent(x) \/ (x \in StoredFor(k) /\ DOMAIN x = ReportKeys)

Contributed(r, i) == {j \in 1..(i - 1) : outcomes[r][j] \/ j = 1}

\* C20 in each state: the agents called so far in a run are the first ones of
\* the fixed order, each called once; the run is at the step after the last
\* one called; an agent that answered was given the outputs of all the earlier
\* steps that left one, the profile of the first step included; and a step not
\* yet run has left nothing in the context.
C20_InOrder ==
    \A r \in Runs :
        MissedAt(r, Working \cup {"done"}) =>
            /\ Len(outcomes[r]) <= NumAgents
            /\ apiCalls[r] = Len(outcomes[r])
            /\ Len(log[r]) = Len(outcomes[r])
            /\ step[r] = Len(outcomes[r]) + 1
            /\ pc[r] = "running-steps" <=> step[r] <= NumAgents
            /\ \A i \in 1..Len(log[r]) : log[r][i].agent = AgentNames[i]
            /\ \A i \in 1..Len(outcomes[r]) :
                  (outcomes[r][i] \/ i = 1) <=> AgentKeys[i] \in DOMAIN context[r]
            /\ \A i \in 1..Len(outcomes[r]) :
                  outcomes[r][i] =>
                      /\ AgentKeys[i] \in DOMAIN context[r]
                      /\ context[r][AgentKeys[i]].agent = AgentNames[i]
                      /\ context[r][AgentKeys[i]].upstream
                             = {AgentKeys[j] : j \in Contributed(r, i)}
                      /\ i > 1 => context[r][AgentKeys[i]].profile
                                      = context[r].idea_profile.by
            /\ \A i \in (Len(outcomes[r]) + 1)..NumAgents :
                  AgentKeys[i] \notin DOMAIN context[r]

\* C20 in each step: the step counter of a run in progress moves only from N
\* to N + 1, with one agent call, the call of agent N, and with the output of
\* step N (or the fallback profile) already in the context; nothing already in
\* the context is changed by a later step.
C20_OneStepAtATime ==
    \A r \in Runs :
        (pc[r] = "running-steps" /\ pc'[r] # "start" /\
         <<step[r], apiCalls[r], context[r]>>
             # <<step'[r], apiCalls'[r], context'[r]>>) =>
            /\ step'[r] = step[r] + 1
            /\ apiCalls'[r] = apiCalls[r] + 1
            /\ Len(log'[r]) = Len(log[r]) + 1
            /\ log'[r][step[r]].agent = AgentNames[step[r]]
            /\ (log'[r][step[r]].status # "failed") =>
                   AgentKeys[step[r]] \in DOMAIN context'[r]
            /\ \A k \in DOMAIN context[r] \ {"input"} :
                   k \in DOMAIN context'[r] /\ context'[r][k] = context[r][k]

\* C20: within one run the agents run strictly in the fixed order, each after
\* the output (or fallback) of the one before is merged into the context, and
\* none is run more than once.
C20_StepsInOrderOnce == [](C20_InOrder) /\ [][C20_OneStepAtATime]_vars

\* a run finished in which the third agent failed and the last agent answered,
\* given the outputs of the four steps that left one
C20_Witness ==
    \E r \in Runs :
        /\ MissedAt(r, {"done"})
        /\ Len(outcomes[r]) = NumAgents
        /\ ~outcomes[r][3]
        /\ outcomes[r][NumAgents]
        /\ apiCalls[r] = NumAgents
        /\ context[r][AgentKeys[NumAgents]].upstream
               = {AgentKeys[j] : j \in {1, 2, 4, 5}}

\* C21 in each state: during a miss run the log has one entry per step
\* finished so far, the entries in the order of the steps; the assembled
\* report carries the log and the names of the agents as they ran; at done the
\* log lists the six agents of the fixed sequence in order.
C21_OneEntryPerStep ==
    \A r \in Runs :
        MissedAt(r, Working \cup {"done"}) =>
            /\ Len(log[r]) = step[r] - 1
            /\ Len(log[r]) = apiCalls[r]
            /\ [i \in 1..Len(log[r]) |-> log[r][i].agent]
                   = SubSeq(AgentNames, 1, Len(log[r]))
            /\ pc[r] \in {"assembling", "caching", "cached", "done"} =>
                   Len(log[r]) = NumAgents
            /\ pc[r] \in {"caching", "cached", "done"} =>
                   /\ report[r].metadata.execution_log = log[r]
                   /\ report[r].metadata.agents_executed = AgentNames
            /\ pc[r] = "done" =>
                   /\ result[r].metadata.execution_log = log[r]
                   /\ [i \in 1..NumAgents |-> log[r][i].agent] = AgentNames

\* C21 in each step: while a run goes on its log only grows, by one entry
\* at the end and only when a step finishes; the entries already there stay as
\* they are.
C21_AppendOnly ==
    \A r \in Runs :
        (pc[r] \notin Resting /\ pc'[r] # "start") =>
            \/ log'[r] = log[r] /\ step'[r] = step[r]
            \/ /\ pc[r] = "running-steps"
               /\ step'[r] = step[r] + 1
               /\ Len(log'[r]) = Len(log[r]) + 1
               /\ SubSeq(log'[r], 1, Len(log[r])) = log[r]

\* C21: the execution log has one entry per executed step, in execution order,
\* and is append-only during a run.
C21_LogIsOrderedAndAppendOnly == [](C21_OneEntryPerStep) /\ [][C21_AppendOnly]_vars

\* a run is between two steps with some agents answered and one failed
C21_Witness ==
    \E r \in Runs :
        /\ pc[r] = "running-steps"
        /\ step[r] = 4
        /\ Len(log[r]) = 3
        /\ log[r][2].status = "failed"
        /\ log[r][3].status = "ok"

\* the statuses the log may give step i
StatusesOf(i) == IF i = 1 THEN {"ok", "fallback"} ELSE {"ok", "failed"}

AddedKeys(r) == DOMAIN context'[r] \ DOMAIN context[r]

\* run r takes a step of its chain
ChainStep(r) == pc[r] = "running-steps" /\ step'[r] = step[r] + 1 /\ pc'[r] # "start"

\* the chain of run r starts with the context {input: record}
StartsWithInput(r) ==
    (pc[r] = "cache-checked" /\ pc'[r] = "running-steps") =>
        /\ DOMAIN context'[r] = {"input"}
        /\ context'[r].input = input_dict'[r]
        /\ context'[r].input = Normalize(raw[r])

C24_StillCached ==
    /\ \A r \in Runs :
          /\ pc[r] # "error"
          /\ MissedAt(r, {"cached", "done"}) =>
                /\ setCalls[r] = 1
                /\ \E i \in DOMAIN setLog :
                       setLog[i].key = fp[r] /\ setLog[i].value = report[r]
                /\ (probe[r].redisUp \/ probe[r].diskOk) => probe[r].value = report[r]
          /\ MissedAt(r, {"done"}) => result[r] = report[r]
    /\ (disturbed \subseteq {"disconnect"} /\ Len(history) = 2
        /\ history[1].fp = history[2].fp) =>
           (~history[1].cached /\ history[2].cached /\ history[2].calls = 0)

C25_ErrorOnlyByDefect ==
    /\ "defect" \notin disturbed => \A r \in Runs : pc[r] # "error"
    /\ \A r \in Runs :
          pc[r] = "error" =>
              /\ "defect" \in disturbed
              /\ IsAbsent(result[r])
              /\ IsAbsent(report[r])
              /\ setCalls[r] = 0
              /\ probe[r] = NoProbe
    /\ \A r \in Runs : pc[r] \notin Resting => ENABLED RunSteps(r)

\* C25 in each step: the step by which a run fails returns no report and
\* writes nothing to either backend, and a failed run takes no further step.
C25_ErrorWritesNothing ==
    \A r \in Runs :
        /\ (pc[r] # "error" /\ pc'[r] = "error") =>
               /\ redis' = redis
               /\ files' = files
               /\ setLog' = setLog
               /\ history' = history
               /\ IsAbsent(result'[r])
        /\ (pc[r] = "error" /\ pc'[r] = "error") =>
               /\ result'[r] = result[r]
               /\ setCalls'[r] = setCalls[r]

Degraded(x) ==
    \E i \in DOMAIN x.metadata.execution_log :
        x.metadata.execution_log[i].status # "ok"

\* C26: a report of a run in which a step failed or fell back is never given
\* to cache_set and is in neither backend, and no request is answered from the
\* cache with such a report.
C26_DegradedReportsAreNotCached ==
    /\ \A n \in DOMAIN setLog : ~Degraded(setLog[n].value)
    /\ \A k \in DOMAIN redis : ~Degraded(JsonLoads(redis[k].value))
    /\ \A k \in DOMAIN files :
          files[k].kind = "json" => ~Degraded(JsonLoads(files[k].data))
    /\ \A r \in Runs :
          (pc[r] = "done" /\ ~IsAbsent(got[r])) => ~Degraded(result[r])

\* run r makes its cache_get in this step
CheckStep(r) == pc[r] = "normalized" /\ pc'[r] = "cache-checked"

\* the file cache holds a good entry for key k
GoodFile(k) ==
    /\ diskOk
    /\ k \in DOMAIN files
    /\ ~FileIsBad(files[k], cacheVersion, now)

\* C27: cache_get asks Redis first and the file cache next.  When Redis
\* answers and holds the key, its value is returned; when Redis answers and
\* does not hold the key (as after it was unreachable while cache_set wrote
\* the file) or does not answer, and the file cache holds the key within its
\* TTL, the file's report is returned, one that cache_set was given for the
\* key; the read changes neither backend.
C27_RedisFirstThenFile ==
    [][\A r \in Runs :
          CheckStep(r) =>
              LET k == fp'[r]
              IN  /\ (redisUp /\ k \in DOMAIN redis) =>
                         got'[r] = JsonLoads(redis[k].value)
                  /\ (~(redisUp /\ k \in DOMAIN redis) /\ GoodFile(k)) =>
                         /\ got'[r] = JsonLoads(files[k].data)
                         /\ got'[r] \in StoredFor(k)
                         /\ files' = files
                  /\ redis' = redis]_vars

\* a report was stored in the file cache while Redis was unreachable; Redis
\* is back and holds nothing for the key; a run for the key was given the
\* report
C27_Witness ==
    \E r \in Runs :
        /\ pc[r] = "cache-checked"
        /\ redisUp
        /\ fp[r] \notin DOMAIN redis
        /\ GoodFile(fp[r])
        /\ got[r] = JsonLoads(files[fp[r]].data)
        /\ disturbed = {"backend"}
        /\ envEvents = 1
        /\ Len(setLog) = 1

\* the steps of run r on the hit path: the cache_get that finds the report,
\* and the return
HitStep(r) ==
    \/ CheckStep(r) /\ ~IsAbsent(got'[r])
    \/ pc[r] = "cache-checked" /\ ~IsAbsent(got[r]) /\ pc'[r] = "done"

\* a cache_set call with key k, report x, ending its TTL at time e
WasSet(k, x, e) ==
    \E n \in DOMAIN setLog :
        /\ setLog[n].key = k
        /\ setLog[n].value = x
        /\ setLog[n].at + CacheTTL = e

\* C28 in each state: every entry in either backend is the report of a
\* cache_set call for its key, as it was given (cached = false, no retrieval
\* time), expiring a TTL after that call; a run that was answered from the
\* cache has not called cache_set.
C28_EntriesAreAsWritten ==
    /\ \A k \in DOMAIN redis :
          /\ WasSet(k, JsonLoads(redis[k].value), redis[k].expires_at)
          /\ ~JsonLoads(redis[k].value).metadata.cached
    /\ \A k \in DOMAIN files :
          files[k].kind = "json" =>
              /\ WasSet(k, JsonLoads(files[k].data), files[k].stored_at + files[k].ttl)
              /\ ~JsonLoads(files[k].data).metadata.cached
              /\ "cache_retrieval_time_seconds"
                     \notin DOMAIN JsonLoads(files[k].data).metadata
    /\ \A r \in Runs :
          (pc[r] \in {"cache-checked", "done"} /\ ~IsAbsent(got[r])) =>
              /\ setCalls[r] = 0
              /\ apiCalls[r] = 0
              /\ ~got[r].metadata.cached
              /\ pc[r] = "done" => result[r].metadata.cached

\* C28 in each step: the steps of a hit leave Redis, the cache files and the
\* record of cache_set calls as they are.
C28_HitWritesNothing ==
    \A r \in Runs :
        HitStep(r) =>
            /\ redis' = redis
            /\ files' = files
            /\ setLog' = setLog
            /\ setCalls'[r] = 0

\* C28: a cache hit leaves the store unchanged: cache_set is not called, the
\* stored report and its expiry are not modified, the annotations of a hit
\* are on the returned copy only.
C28_HitLeavesStoreUnchanged == [](C28_EntriesAreAsWritten) /\ [][C28_HitWritesNothing]_vars

\* a request was answered from the cache some time after the report was
\* stored; the entry is still there with its first expiry
C28_Witness ==
    \E r \in Runs :
        /\ pc[r] = "done"
        /\ ~IsAbsent(got[r])
        /\ result[r].metadata.cached
        /\ now > LastSetAt(fp[r])
        /\ \/ fp[r] \in DOMAIN redis
              /\ redis[fp[r]].expires_at = LastSetAt(fp[r]) + CacheTTL
           \/ fp[r] \in DOMAIN files
              /\ files[fp[r]].kind = "json"
              /\ files[fp[r]].stored_at = LastSetAt(fp[r])

\* the key of run r's request: of the normalized record, before any agent ran
KeyOfRequest(r) == compute_hash(Normalize(raw[r]), cacheVersion)

\* C29 in each state: from the cache check on, the key of a run is the key of
\* its normalized request; once the first agent has finished, input_dict
\* holds the idea profile and would give another key; the report of a miss
\* is given to cache_set under the key that cache_get was given, every key
\* ever given to cache_set is the key of a normalized request, and the second
\* of two identical requests is answered from the cache.
C29_KeyComputedOnce ==
    /\ \A r \in Runs :
          /\ pc[r] \in {"cache-checked"} \cup Working \cup {"done"} =>
                 fp[r] = KeyOfRequest(r)
          /\ (MissedAt(r, Working \cup {"done"}) /\ step[r] > 1) =>
                 /\ "ideaProfile" \in DOMAIN input_dict[r]
                 /\ compute_hash(input_dict[r], cacheVersion) # fp[r]
          /\ MissedAt(r, {"cached", "done"}) =>
                 /\ \E n \in DOMAIN setLog :
                        setLog[n].key = fp[r] /\ setLog[n].value = report[r]
                 /\ probe[r].value = report[r]
    /\ \A n \in DOMAIN setLog :
          \E q \in Requests : setLog[n].key = compute_hash(Normalize(q), cacheVersion)
    /\ (Len(history) = 2 /\ history[1].fp = history[2].fp) => history[2].cached

\* C29 in each step: the key of a run does not change between its cache_get
\* and its return, and the step that calls cache_set records the key that
\* cache_get was given.
C29_SameKeyAtSet ==
    \A r \in Runs :
        /\ (pc[r] \in {"cache-checked"} \cup Working /\ pc'[r] # "start") =>
               fp'[r] = fp[r]
        /\ (pc[r] = "caching" /\ pc'[r] = "cached") =>
               /\ Len(setLog') = Len(setLog) + 1
               /\ setLog'[Len(setLog')].key = fp[r]
               /\ fp[r] \in DOMAIN redis' \cup DOMAIN files'

\* C29: within a miss run the key given to cache_set is the key that was given
\* to cache_get, computed once from the normalized record; the idea profile
\* written into input_dict does not change it.
C29_SetUsesTheKeyOfGet == [](C29_KeyComputedOnce) /\ [][C29_SameKeyAtSet]_vars

\* a miss stored its report under the key of its request, although input_dict
\* with the idea profile gives another key, and the same request then hit
C29_Witness ==
    /\ Len(history) = 2
    /\ history[1].fp = history[2].fp
    /\ ~history[1].cached
    /\ history[2].cached
    /\ Len(setLog) = 1
    /\ setLog[1].key = history[1].fp
    /\ "ideaProfile" \notin {setLog[1].key.digest.sha256[i][1] :
                                i \in DOMAIN setLog[1].key.digest.sha256}

\* the users whose signup was answered 201
Created == {p \in Signups : signup[p].status = 201}

\* C30: whatever the interleaving of the signup requests, data/users.json
\* never holds two users whose emails are equal ignoring case, and every user
\* whose signup succeeded is in the file.
C30_UsersAreUniqueAndKept ==
    usersFile.kind = "json" =>
        LET us == usersFile.users
        IN  /\ \A i, j \in DOMAIN us :
                   i # j => toLowerCase(us[i].email) # toLowerCase(us[j].email)
            /\ \A p \in Created : \E i \in DOMAIN us : us[i].id = p

====
